---------------------------- MODULE Spec2Model ----------------------------
(***************************************************************************)
(* Model of the Smart Surveillance dashboard (Frontend/JS/dashboard.js and *)
(* camera-view.js): the browser-side state (alerts, cameras, camera views, *)
(* DOM panels), the socket.io client, the HTTP requests in flight, and the *)
(* alert store of the backend the dashboard talks to.                      *)
(*                                                                         *)
(* Every handler of the page (timer callback, socket event handler, fetch  *)
(* continuation, click handler) is one action: JavaScript runs a handler   *)
(* to completion, and an `await fetch` splits an async function into the   *)
(* part that issues the request and the part that runs on the response.    *)
(***************************************************************************)
EXTENDS Integers, Sequences, FiniteSets, TLC

(***************************************************************************)
(* Bounds of the model.                                                    *)
(***************************************************************************)
MaxAlerts == 2
MaxInflight == 2
MaxPushes == 1
MaxRetryTimers == 2
MaxHourly == 3
MaxCount == 2

(***************************************************************************)
(* Program constants.                                                      *)
(***************************************************************************)
reconnectionAttempts == 5
maxRetries == 3

AlertIds == 1..MaxAlerts

(***************************************************************************)
(* Alert records.  The backend denormalises camera and class into the      *)
(* alert; the attributes of alert i are fixed here, so an alert list is    *)
(* kept as the list of its ids and expanded where the code reads fields.   *)
(***************************************************************************)
AlertClasses == <<"knife", "gun">>
AlertCameras == <<1, 2>>
CameraNames == <<"Gate", "Lobby">>

AlertRecord(i) ==
    [id |-> i,
     camera_id |-> AlertCameras[((i - 1) % 2) + 1],
     camera_name |-> CameraNames[AlertCameras[((i - 1) % 2) + 1]],
     object_class |-> AlertClasses[((i - 1) % 2) + 1]]

toUpperCase(s) ==
    CASE s = "knife" -> "KNIFE"
      [] s = "gun" -> "GUN"
      [] OTHER -> s

(***************************************************************************)
(* Cameras.  GET /api/cameras answers one of these lists.                  *)
(***************************************************************************)
Camera(i, status) == [id |-> i, name |-> CameraNames[i], status |-> status]

CameraLists ==
    { <<>>,
      <<Camera(1, "active")>>,
      <<Camera(1, "active"), Camera(2, "inactive")>> }

CameraIds == {1, 2}

CameraStatuses == {"active", "online", "offline"}

(***************************************************************************)
(* What the administrator may type into the add-camera form.               *)
(***************************************************************************)
TypedNames == {<<>>, <<" ">>, <<" ", "G">>}

TypedSources == {<<>>, <<" ">>, <<"r", " ">>}

TypedLocations == {<<>>, <<"L", " ">>}

SourceTypes == {"webcam", "rtsp", "video"}

\* The form as the page's HTML gives it, which form.reset() restores.
formReset ==
    [cameraName |-> <<>>, cameraLocation |-> <<>>, cameraSourceType |-> "webcam",
     cameraRtsp |-> <<"0">>]

VARIABLES
    serverAlerts,     \* backend alert store: id -> "NONE" | "PENDING" | "ACKNOWLEDGED"
    socket,           \* socket.io client: [state, attempts]
    pushes,           \* new_alert / alert_acknowledged events sent, not yet handled
    connectionStatus, \* #connectionStatus badge
    alerts,           \* global `alerts` (ids of the alert objects, in order)
    alertsList,       \* #alertsList: [items: ids of the .alert-item elements, noAlerts]
    removalTimers,    \* pending 300 ms timers of removeAlertFromUI, oldest first
    alertCount,       \* text of #alertCount
    alertReqs,        \* GET /api/alerts?pending=true in flight, oldest first
    ackReqs,          \* POST /api/alerts/{id}/acknowledge in flight
    statReqs,         \* number of GET /api/analytics/summary?hours=24 in flight
    totalDetections,  \* text of #totalDetections
    cameras,          \* global `cameras`
    cameraViews,      \* CameraViewManager.cameraViews: camera id -> view
    cameraGrid,       \* what #cameraGrid holds besides camera cards
    camReqs,          \* number of GET /api/cameras in flight
    activeCameras,    \* text of #activeCameras
    addCameraForm,    \* the fields of #addCameraForm
    addCameraBtn,     \* #addCameraBtn: [disabled, label]
    addCameraModal,   \* whether #addCameraModal is shown
    addReqs,          \* bodies of the POST /api/cameras in flight
    reloadTimers,     \* number of pending 1 s timers of addCamera (loadCameras)
    analytics,        \* the analytics dialog: the data received and the texts shown
    acknowledgedShown,\* alert ids for which 'Alert acknowledged' was shown
    history,          \* what has happened: [stale, pushed] (see Init)
    last              \* what the last handler did: [op, id, arg, sound, toasts, http]

vars == <<serverAlerts, socket, pushes, connectionStatus, alerts, alertsList,
          removalTimers, alertCount, alertReqs, ackReqs, statReqs,
          totalDetections, cameras, cameraViews, cameraGrid, camReqs,
          activeCameras, addCameraForm, addCameraBtn, addCameraModal, addReqs,
          reloadTimers, analytics, acknowledgedShown, history, last>>

----------------------------------------------------------------------------
(* Helpers.                                                                *)

RECURSIVE SelectIds(_, _)
SelectIds(s, keep) ==
    IF s = <<>> THEN <<>>
    ELSE IF Head(s) \in keep THEN <<Head(s)>> \o SelectIds(Tail(s), keep)
         ELSE SelectIds(Tail(s), keep)

Range(s) == {s[i] : i \in 1..Len(s)}

RemoveAt(s, i) == SubSeq(s, 1, i - 1) \o SubSeq(s, i + 1, Len(s))

\* The acknowledge requests in flight complete in any order: they are kept
\* as a multiset, written as a sequence in a fixed order.
AckRank(r) ==
    r.id * 3 + (CASE r.result = "sent" -> 0 [] r.result = "success" -> 1 [] OTHER -> 2)

RECURSIVE InsertAck(_, _)
InsertAck(s, r) ==
    IF s = <<>> THEN <<r>>
    ELSE IF AckRank(r) <= AckRank(Head(s)) THEN <<r>> \o s
         ELSE <<Head(s)>> \o InsertAck(Tail(s), r)

Toast(message, type) == [message |-> message, type |-> type]

\* A JSON field that may be missing is a sequence: <<>> when undefined,
\* <<v>> when it has the value v.
Undefined == <<>>

\* `field || fallback` takes the fallback for undefined, 0 and ''.
FalsyNumber(field) == field = Undefined \/ field[1] = 0

FalsyString(field) == field = Undefined \/ field[1] = ""

(***************************************************************************)
(* The page as one record: the handlers below are functions from page to   *)
(* page.  sound, toasts and http collect what the running handler plays,   *)
(* shows and requests.                                                     *)
(***************************************************************************)
Page ==
    [connectionStatus |-> connectionStatus,
     alerts |-> alerts,
     alertsList |-> alertsList,
     removalTimers |-> removalTimers,
     alertCount |-> alertCount,
     alertReqs |-> alertReqs,
     ackReqs |-> ackReqs,
     statReqs |-> statReqs,
     totalDetections |-> totalDetections,
     cameras |-> cameras,
     cameraViews |-> cameraViews,
     cameraGrid |-> cameraGrid,
     camReqs |-> camReqs,
     activeCameras |-> activeCameras,
     addCameraForm |-> addCameraForm,
     addCameraBtn |-> addCameraBtn,
     addCameraModal |-> addCameraModal,
     addReqs |-> addReqs,
     reloadTimers |-> reloadTimers,
     analytics |-> analytics,
     sound |-> 0,
     toasts |-> <<>>,
     http |-> <<>>]

\* The model keeps at most MaxInflight requests about alerts, and as many
\* about statistics and about cameras, in flight.
WithinBounds(d) ==
    /\ Len(d.alertReqs) + Len(d.ackReqs) <= MaxInflight
    /\ d.statReqs <= MaxInflight
    /\ d.camReqs <= MaxInflight
    /\ d.reloadTimers <= MaxInflight
    /\ \A c \in DOMAIN d.cameraViews :
           d.cameraViews[c].retryTimers <= MaxRetryTimers

\* The page after the handler op, called for id with the argument arg, has
\* run; a handler that would exceed the number of requests the model keeps
\* in flight waits.
Step(op, id, arg, page) ==
    \E d \in {page} :
        /\ WithinBounds(d)
        /\ connectionStatus' = d.connectionStatus
        /\ alerts' = d.alerts
        /\ alertsList' = d.alertsList
        /\ removalTimers' = d.removalTimers
        /\ alertCount' = d.alertCount
        /\ alertReqs' = d.alertReqs
        /\ ackReqs' = d.ackReqs
        /\ statReqs' = d.statReqs
        /\ totalDetections' = d.totalDetections
        /\ cameras' = d.cameras
        /\ cameraViews' = d.cameraViews
        /\ cameraGrid' = d.cameraGrid
        /\ camReqs' = d.camReqs
        /\ activeCameras' = d.activeCameras
        /\ addCameraForm' = d.addCameraForm
        /\ addCameraBtn' = d.addCameraBtn
        /\ addCameraModal' = d.addCameraModal
        /\ addReqs' = d.addReqs
        /\ reloadTimers' = d.reloadTimers
        /\ analytics' = d.analytics
        /\ last' = [op |-> op, id |-> id, arg |-> arg, sound |-> d.sound,
                    toasts |-> d.toasts, http |-> d.http]

Commit(op, id, page) == Step(op, id, "", page)

pageVars == <<connectionStatus, alerts, alertsList, removalTimers, alertCount,
              alertReqs, ackReqs, statReqs, totalDetections, cameras,
              cameraViews, cameraGrid, camReqs, activeCameras, addCameraForm,
              addCameraBtn, addCameraModal, addReqs, reloadTimers, analytics>>

\* A step of the backend or of the network: no handler of the page runs.
Quiet ==
    last' = [op |-> "", id |-> 0, arg |-> "", sound |-> 0, toasts |-> <<>>,
             http |-> <<>>]

playAlertSound(d) == [d EXCEPT !.sound = @ + 1]

showNotification(d, message, type) ==
    [d EXCEPT !.toasts = Append(@, Toast(message, type))]

----------------------------------------------------------------------------
(* Backend alert store and fan-out (sections 4.3 - 4.5 of the design).     *)

\* listPending(): the PENDING alerts, newest (largest id) first.
RECURSIVE Descending(_)
Descending(n) ==
    IF n = 0 THEN <<>> ELSE <<n>> \o Descending(n - 1)

listPending ==
    SelectIds(Descending(MaxAlerts), {i \in AlertIds : serverAlerts[i] = "PENDING"})

\* summary(): total_detections counts the alerts of any status.
total_detections == Cardinality({i \in AlertIds : serverAlerts[i] # "NONE"})

\* acknowledge(id) of the store: PENDING -> ACKNOWLEDGED once, atomically;
\* any other call on the id is AlreadyAcknowledged.
acknowledge(i) ==
    IF serverAlerts[i] = "PENDING" THEN "success" ELSE "already"

\* Best-effort fan-out: a subscriber that is not connected gets nothing, a
\* connected one may still lose the event.
Publish(event, id) ==
    IF socket.state = "connected" /\ Len(pushes) < MaxPushes
    THEN {pushes, Append(pushes, [event |-> event, alert_id |-> id])}
    ELSE {pushes}

----------------------------------------------------------------------------
(* camera-view.js.                                                         *)

\* new CameraView(camera, apiBase) and getCardHTML(): the fields and the card
\* a view starts with.  The feed holds the <img>, whose src is set, so a load
\* of the stream is under way.  retryTimers counts the pending setTimeout
\* calls of handleStreamError.  failedLoads is history, not a field of the
\* program: the number of image loads that failed since the last one that
\* succeeded, counted up to maxRetries + 1.
getCardHTML(camera) ==
    [status_badge |-> IF camera.status = "active" THEN "ONLINE" ELSE "OFFLINE",
     inDocument |-> FALSE,
     alertBadge |-> FALSE,
     streamActive |-> FALSE,
     retryCount |-> 0,
     feed |-> "img",
     feedLoading |-> FALSE,
     imgLoad |-> "pending",
     retryTimers |-> 0,
     failedLoads |-> 0]

\* An updateStatus that knew only the status 'active' would read like this.
updateStatusActiveOnly(view, status) ==
    IF view.inDocument
    THEN [view EXCEPT !.status_badge =
              IF status = "active" THEN "ONLINE" ELSE "OFFLINE"]
    ELSE view

\* CameraView.updateStatus(status): sets the badge found by
\* document.getElementById('status-{id}'), if the document has one.
updateStatus(view, status) ==
    IF view.inDocument
    THEN [view EXCEPT !.status_badge =
              IF status = "active" \/ status = "online" THEN "ONLINE" ELSE "OFFLINE"]
    ELSE view

\* CameraView.showOfflineState(): the feed's innerHTML becomes the Camera
\* Offline box with its Retry button (the <img> leaves the card; the view
\* keeps it in imgElement), then updateStatus('offline').
showOfflineState(view) ==
    updateStatus([view EXCEPT !.feed = "offline"], "offline")

\* CameraView.handleStreamError().
handleStreamError(view) ==
    IF view.retryCount < maxRetries
    THEN [view EXCEPT !.streamActive = FALSE,
                      !.retryCount = @ + 1,
                      !.retryTimers = @ + 1]
    ELSE showOfflineState([view EXCEPT !.streamActive = FALSE])

\* CameraView.refreshStream(): a new src on imgElement starts a load (and
\* gives up the one under way), showLoadingState() marks the feed.
refreshStream(view) ==
    [view EXCEPT !.imgLoad = "pending", !.feedLoading = TRUE]

\* The 'load' listener of attachEventListeners().
imgOnLoad(view) ==
    [view EXCEPT !.streamActive = TRUE,
                 !.retryCount = 0,
                 !.feedLoading = FALSE,
                 !.imgLoad = "none",
                 !.failedLoads = 0]

\* CameraViewManager.handleImageError(cameraId), the onerror attribute of
\* the <img> in getCardHTML().
handleImageError(d, cameraId) ==
    IF cameraId \in DOMAIN d.cameraViews
    THEN [d EXCEPT !.cameraViews[cameraId] = handleStreamError(@)]
    ELSE d

\* An 'error' event of the <img> of view cameraId.  The handlers run in the
\* order they were registered: the onerror attribute set by getCardHTML()
\* (createElement sets innerHTML first), then the 'error' listener of
\* attachEventListeners().
imgOnError(d, cameraId) ==
    [handleImageError(
         [d EXCEPT !.cameraViews[cameraId].imgLoad = "none",
                   !.cameraViews[cameraId].failedLoads =
                       IF @ > maxRetries THEN @ ELSE @ + 1],
         cameraId)
     EXCEPT !.cameraViews[cameraId] = handleStreamError(@)]

\* CameraViewManager.refreshCamera(cameraId).
refreshCamera(d, cameraId) ==
    IF cameraId \in DOMAIN d.cameraViews
    THEN [d EXCEPT !.cameraViews[cameraId] = refreshStream(@)]
    ELSE d

\* CameraViewManager.refreshAllCameras().
refreshAllCameras(d) ==
    [d EXCEPT !.cameraViews = [c \in DOMAIN @ |-> refreshStream(@[c])]]

\* CameraViewManager.getCameraCount().
getCameraCount(d) == Cardinality(DOMAIN d.cameraViews)

\* The callback of the per-minute setInterval of initializeApp().
refreshInterval(d) ==
    IF getCameraCount(d) > 0 THEN refreshAllCameras(d) ELSE d

\* CameraViewManager.updateCameraStatus(cameraId, status).
updateCameraStatus(d, cameraId, status) ==
    IF cameraId \in DOMAIN d.cameraViews
    THEN [d EXCEPT !.cameraViews[cameraId] = updateStatus(@, status)]
    ELSE d

\* CameraViewManager.showAlert(cameraId, alertData): CameraView.showAlert
\* puts the alert badge on the feed of the card.
showAlert(d, cameraId) ==
    IF cameraId \in DOMAIN d.cameraViews
    THEN [d EXCEPT !.cameraViews[cameraId].alertBadge = TRUE]
    ELSE d

\* Setting #cameraGrid.innerHTML takes every card out of the document; the
\* views stay in the manager's map.
SetGrid(d, content) ==
    [d EXCEPT !.cameraGrid = content,
              !.cameraViews = [c \in DOMAIN @ |-> [@[c] EXCEPT !.inDocument = FALSE]]]

\* CameraViewManager.clearAllCameras().
clearAllCameras(d) ==
    [d EXCEPT !.cameraViews = <<>>, !.cameraGrid = "cards"]

\* CameraViewManager.addCamera(camera).
addCameraView(d, camera) ==
    IF camera.id \in DOMAIN d.cameraViews
    THEN d
    ELSE [d EXCEPT !.cameraViews =
              [c \in DOMAIN @ \cup {camera.id} |->
                  IF c = camera.id
                  THEN [getCardHTML(camera) EXCEPT !.inDocument = TRUE]
                  ELSE @[c]]]

----------------------------------------------------------------------------
(* dashboard.js: cameras.                                                  *)

\* updateConnectionStatus(connected).
updateConnectionStatus(d, connected) ==
    [d EXCEPT !.connectionStatus = IF connected THEN "Connected" ELSE "Disconnected"]

\* updateActiveCamerasCount().
updateActiveCamerasCount(d) ==
    [d EXCEPT !.activeCameras =
         ToString(Cardinality({i \in 1..Len(d.cameras) : d.cameras[i].status = "active"}))]

RECURSIVE forEachAddCamera(_, _)
forEachAddCamera(d, cs) ==
    IF cs = <<>> THEN d ELSE forEachAddCamera(addCameraView(d, Head(cs)), Tail(cs))

\* renderCameras().
renderCameras(d) ==
    IF Len(d.cameras) = 0
    THEN SetGrid(d, "noCameras")
    ELSE forEachAddCamera(clearAllCameras(d), d.cameras)

\* loadCameras() up to its await: showLoadingState() and the request.
loadCameras(d) ==
    [SetGrid(d, "loading") EXCEPT !.camReqs = @ + 1,
                                  !.http = Append(@, "GET /api/cameras")]

\* loadCameras() after the response arrived.
loadCamerasResponse(d, data) ==
    IF data.success
    THEN updateActiveCamerasCount(renderCameras([d EXCEPT !.cameras = data.cameras]))
    ELSE showNotification(d, <<"Failed to load cameras">>, "danger")

\* loadCameras() when fetch or response.json() throws: showErrorState().
loadCamerasThrows(d) ==
    SetGrid(showNotification(d, <<"Error connecting to server">>, "danger"), "error")

----------------------------------------------------------------------------
(* dashboard.js: the analytics dialog.                                     *)

\* The hour buckets of the hourly data, as the backend writes them, and the
\* classes of the detections.
HourKeys == {"2025-01-01T23:00:00+05:30", "2025-01-02T00:00:00+05:30",
             "2025-01-02T23:00:00+05:30"}

\* data of GET /api/analytics/hourly: rows {hour, object_class, count}.
HourlyInputs ==
    UNION {[1..n -> [hour : HourKeys, object_class : Range(AlertClasses),
                     count : 1..MaxCount]] : n \in 0..MaxHourly}

\* summary of GET /api/analytics/summary: total_detections and by_class,
\* one row {object_class, count} for a class.
SummaryInputs ==
    [total_detections : {Undefined, <<0>>, <<MaxCount>>},
     by_class : {bc \in UNION {[1..n -> [object_class : Range(AlertClasses),
                                          count : 1..MaxCount]] : n \in 0..2} :
                    \A i, j \in 1..Len(bc) :
                        i # j => bc[i].object_class # bc[j].object_class}]

\* The dialog holding the data loadAnalytics received, its texts not yet
\* written by updateSummaryStats.
analyticsReceived(summaryData, hourlyData) ==
    [summaryData |-> summaryData,
     hourlyData |-> hourlyData,
     totalDetectionsAnalytics |-> "",
     mostDetectedClass |-> "",
     peakHour |-> ""]

\* new Date(hour).toLocaleTimeString('en-IN', {hour: '2-digit',
\* minute: '2-digit', timeZone: 'Asia/Kolkata'}): the time of day, without
\* the date.
toLocaleTimeString(hour) ==
    CASE hour = "2025-01-01T23:00:00+05:30" -> "11:00 pm"
      [] hour = "2025-01-02T00:00:00+05:30" -> "12:00 am"
      [] hour = "2025-01-02T23:00:00+05:30" -> "11:00 pm"

\* A forEach body that kept the count of the last row of an hour, without
\* adding, would read like this.
addHourCountOverwriting(hourCounts, d) ==
    IF \E i \in 1..Len(hourCounts) : hourCounts[i].hour = d.hour
    THEN [i \in 1..Len(hourCounts) |->
             IF hourCounts[i].hour = d.hour
             THEN [hourCounts[i] EXCEPT !.count = d.count]
             ELSE hourCounts[i]]
    ELSE Append(hourCounts, [hour |-> d.hour, count |-> d.count])

\* hourCounts[d.hour] = (hourCounts[d.hour] || 0) + d.count.  The object
\* hourCounts is the sequence of its entries in the order of Object.keys:
\* the order in which the keys were added.
addHourCount(hourCounts, d) ==
    IF \E i \in 1..Len(hourCounts) : hourCounts[i].hour = d.hour
    THEN [i \in 1..Len(hourCounts) |->
             IF hourCounts[i].hour = d.hour
             THEN [hourCounts[i] EXCEPT !.count = @ + d.count]
             ELSE hourCounts[i]]
    ELSE Append(hourCounts, [hour |-> d.hour, count |-> d.count])

\* hourlyData.forEach(d => ...).
RECURSIVE forEachHourCount(_, _)
forEachHourCount(hourCounts, hourlyData) ==
    IF hourlyData = <<>> THEN hourCounts
    ELSE forEachHourCount(addHourCount(hourCounts, Head(hourlyData)),
                          Tail(hourlyData))

\* Object.keys(hourCounts).reduce((a, b) =>
\*     hourCounts[a] > hourCounts[b] ? a : b), from the accumulator a on.
RECURSIVE reducePeakHour(_, _)
reducePeakHour(a, keys) ==
    IF keys = <<>> THEN a
    ELSE reducePeakHour(IF a.count > Head(keys).count THEN a ELSE Head(keys),
                        Tail(keys))

\* updateSummaryStats(summaryData, hourlyData).
updateSummaryStats(d, summaryData, hourlyData) ==
    [d EXCEPT
       !.analytics.totalDetectionsAnalytics =
           IF FalsyNumber(summaryData.total_detections) THEN "0"
           ELSE ToString(summaryData.total_detections[1]),
       !.analytics.mostDetectedClass =
           IF Len(summaryData.by_class) > 0
           THEN toUpperCase(summaryData.by_class[1].object_class)
           ELSE "-",
       !.analytics.peakHour =
           IF Len(hourlyData) > 0
           THEN LET hourCounts == forEachHourCount(<<>>, hourlyData)
                IN  toLocaleTimeString(
                        reducePeakHour(Head(hourCounts), Tail(hourCounts)).hour)
           ELSE "-"]

\* renderAnalyticsCharts(hourlyData, summaryData, hours): the texts of the
\* dialog; the charts are drawn on canvases the model does not hold.
renderAnalyticsCharts(d) ==
    updateSummaryStats(d, d.analytics.summaryData, d.analytics.hourlyData)

----------------------------------------------------------------------------
(* dashboard.js: the add-camera form.  A text is a sequence of characters. *)

RECURSIVE trimStart(_)
trimStart(s) ==
    IF s # <<>> /\ Head(s) = " " THEN trimStart(Tail(s)) ELSE s

RECURSIVE trimEnd(_)
trimEnd(s) ==
    IF s # <<>> /\ s[Len(s)] = " " THEN trimEnd(SubSeq(s, 1, Len(s) - 1)) ELSE s

\* String.prototype.trim().
trim(s) == trimEnd(trimStart(s))

\* toggleSourceInput(): the source field follows the source type.
toggleSourceInput(d) ==
    [d EXCEPT !.addCameraForm.cameraRtsp =
         IF d.addCameraForm.cameraSourceType = "webcam" THEN <<"0">> ELSE <<>>]

\* showButtonLoading('addCameraBtn', isLoading).
showButtonLoading(d, isLoading) ==
    [d EXCEPT !.addCameraBtn =
         IF isLoading THEN [disabled |-> TRUE, label |-> "Loading..."]
         ELSE [disabled |-> FALSE, label |-> "Add Camera"]]

\* An addCamera that validated the fields as typed, without trim(), would
\* read like this.
addCameraUntrimmed(d) ==
    LET name == d.addCameraForm.cameraName
        location == d.addCameraForm.cameraLocation
        sourceType == d.addCameraForm.cameraSourceType
        rtspUrl == d.addCameraForm.cameraRtsp
    IN  IF name = <<>>
        THEN showNotification(d, <<"Please enter camera name">>, "warning")
        ELSE IF sourceType # "webcam" /\ rtspUrl = <<>>
             THEN showNotification(d, <<"Please enter camera source">>, "warning")
             ELSE [showButtonLoading(d, TRUE) EXCEPT
                     !.addReqs = Append(@, [name |-> name, location |-> location,
                                            rtsp_url |-> IF sourceType = "webcam"
                                                         THEN <<"0">> ELSE rtspUrl]),
                     !.http = Append(@, "POST /api/cameras")]

\* addCamera() up to its await: the validation and the request.
addCamera(d) ==
    LET name == trim(d.addCameraForm.cameraName)
        location == trim(d.addCameraForm.cameraLocation)
        sourceType == d.addCameraForm.cameraSourceType
        rtspUrl == trim(d.addCameraForm.cameraRtsp)
    IN  IF name = <<>>
        THEN showNotification(d, <<"Please enter camera name">>, "warning")
        ELSE IF sourceType # "webcam" /\ rtspUrl = <<>>
             THEN showNotification(d, <<"Please enter camera source">>, "warning")
             ELSE [showButtonLoading(d, TRUE) EXCEPT
                     !.addReqs = Append(@, [name |-> name, location |-> location,
                                            rtsp_url |-> IF sourceType = "webcam"
                                                         THEN <<"0">> ELSE rtspUrl]),
                     !.http = Append(@, "POST /api/cameras")]

\* addCamera() after the response arrived.
addCameraResponse(d, data) ==
    LET d1 ==
            IF data.success
            THEN LET shown == showNotification(d, <<"Camera added successfully!">>,
                                               "success")
                     hidden == [shown EXCEPT !.addCameraModal = "hidden"]
                     reset == toggleSourceInput([hidden EXCEPT !.addCameraForm = formReset])
                 IN  [reset EXCEPT !.reloadTimers = @ + 1]
            ELSE showNotification(
                     d,
                     IF FalsyString(data.error) THEN <<"Failed to add camera">>
                     ELSE data.error,
                     "danger")
    IN  showButtonLoading(d1, FALSE)

\* addCamera() when fetch or response.json() throws.
addCameraThrows(d) ==
    showButtonLoading(
        showNotification(d, <<"Failed to add camera. Check your connection.">>, "danger"),
        FALSE)

----------------------------------------------------------------------------
(* dashboard.js: alerts.                                                   *)

\* JSON.stringify(alerts): the text is determined by the records in order.
JSONstringify(al) == [i \in 1..Len(al) |-> AlertRecord(al[i])]

\* updateAlertCount(): #alertCount shows alerts.length.
updateAlertCount(d) == [d EXCEPT !.alertCount = ToString(Len(d.alerts))]

\* A renderAlerts that listed the oldest alert first would read like this.
renderAlertsOldestFirst(d) ==
    [d EXCEPT
       !.alertsList =
           IF Len(d.alerts) = 0
           THEN [items |-> <<>>, noAlerts |-> TRUE]
           ELSE [items |-> [i \in 1..Len(d.alerts) |->
                               AlertRecord(d.alerts[Len(d.alerts) + 1 - i]).id],
                 noAlerts |-> FALSE],
       !.removalTimers = [i \in 1..Len(@) |-> [@[i] EXCEPT !.attached = FALSE]]]

\* renderAlerts(): #alertsList becomes one .alert-item per alert, in the
\* order of `alerts`, or the 'No active alerts' placeholder.  Replacing
\* innerHTML takes the old elements out of the document, so a pending
\* removal timer then holds a detached element (a fading element never
\* serialises like a fresh one, so the innerHTML comparison cannot keep it).
renderAlerts(d) ==
    [d EXCEPT
       !.alertsList =
           IF Len(d.alerts) = 0
           THEN [items |-> <<>>, noAlerts |-> TRUE]
           ELSE [items |-> [i \in 1..Len(d.alerts) |-> AlertRecord(d.alerts[i]).id],
                 noAlerts |-> FALSE],
       !.removalTimers = [i \in 1..Len(@) |-> [@[i] EXCEPT !.attached = FALSE]]]

\* removeAlertFromUI(alertId): fade the element and remove it 300 ms later;
\* nothing at all when the document has no element alert-{alertId}.
removeAlertFromUI(d, alertId, by) ==
    IF alertId \in Range(d.alertsList.items)
    THEN [d EXCEPT !.removalTimers =
              Append(@, [id |-> alertId, attached |-> TRUE, by |-> by])]
    ELSE d

\* The callback of the 300 ms timer of removeAlertFromUI, for timer t.
removalTimeout(d, t) ==
    LET removed ==
            IF t.attached
            THEN [d EXCEPT
                    !.alertsList.items = SelectIds(@, Range(@) \ {t.id}),
                    !.removalTimers =
                        [i \in 1..Len(@) |->
                            IF @[i].id = t.id THEN [@[i] EXCEPT !.attached = FALSE]
                            ELSE @[i]]]
            ELSE d
        filtered ==
            updateAlertCount(
                [removed EXCEPT !.alerts = SelectIds(@, Range(@) \ {t.id})])
    IN  IF Len(filtered.alerts) = 0 THEN renderAlerts(filtered) ELSE filtered

\* The toast of loadAlerts for the newest alert.
DetectedMessage(a) ==
    <<toUpperCase(a.object_class), " detected at ", a.camera_name>>

\* The toast of handleNewAlert for the pushed alert.
PushedMessage(a) ==
    <<toUpperCase(a.object_class), " detected at ", a.camera_name, " (%)">>

\* loadAlerts() up to its await: the request.
loadAlerts(d) ==
    [d EXCEPT !.alertReqs = Append(@, [answered |-> FALSE, alerts |-> <<>>]),
              !.http = Append(@, "GET /api/alerts?pending=true")]

\* loadAlerts() after a response with data.success arrived.
loadAlertsResponse(d, data) ==
    LET previousCount == Len(d.alerts)
        previousAlerts == JSONstringify(d.alerts)
        d1 == [d EXCEPT !.alerts = data.alerts]
        newCount == Len(d1.alerts)
        currentAlerts == JSONstringify(d1.alerts)
    IN  IF newCount > previousCount
        THEN LET d2 == playAlertSound(d1)
                 d3 == IF Len(d2.alerts) > 0
                       THEN showNotification(
                                d2, DetectedMessage(AlertRecord(d2.alerts[1])), "danger")
                       ELSE d2
             IN  updateAlertCount(renderAlerts(d3))
        ELSE IF previousAlerts # currentAlerts
             THEN updateAlertCount(renderAlerts(d1))
             ELSE updateAlertCount(d1)

\* loadStatistics() up to its await: the request.
loadStatistics(d) ==
    [d EXCEPT !.statReqs = @ + 1,
              !.http = Append(@, "GET /api/analytics/summary?hours=24")]

\* loadStatistics() after the response arrived.
loadStatisticsResponse(d, data) ==
    IF data.success
    THEN updateActiveCamerasCount(
             [d EXCEPT !.totalDetections =
                  IF FalsyNumber(data.total_detections)
                  THEN ToString(0)
                  ELSE ToString(data.total_detections[1])])
    ELSE d

\* loadStatistics() when fetch or response.json() throws.
loadStatisticsThrows(d) == [d EXCEPT !.totalDetections = "0"]

\* A handleNewAlert that put the pushed alert into `alerts` itself would
\* read like this.
handleNewAlertInsertingPayload(d, alertData) ==
    LET a == AlertRecord(alertData)
        d1 == playAlertSound(d)
        d2 == showNotification(d1, PushedMessage(a), "danger")
        d3 == showAlert(d2, a.camera_id)
        d4 == updateAlertCount(renderAlerts([d3 EXCEPT !.alerts = <<a.id>> \o @]))
    IN  loadStatistics(loadAlerts(d4))

\* A handleNewAlert that reloaded the whole dashboard, cameras included,
\* would read like this.
handleNewAlertReloadingCameras(d, alertData) ==
    LET a == AlertRecord(alertData)
        d1 == playAlertSound(d)
        d2 == showNotification(d1, PushedMessage(a), "danger")
        d3 == showAlert(d2, a.camera_id)
    IN  loadStatistics(loadAlerts(loadCameras(d3)))

\* handleNewAlert(alertData) for the pushed alert with id alertData.
handleNewAlert(d, alertData) ==
    LET a == AlertRecord(alertData)
        d1 == playAlertSound(d)
        d2 == showNotification(d1, PushedMessage(a), "danger")
        d3 == showAlert(d2, a.camera_id)
    IN  loadStatistics(loadAlerts(d3))

\* acknowledgeAlert(alertId) up to its await: the request.
acknowledgeAlert(d, alertId) ==
    [d EXCEPT !.ackReqs = InsertAck(@, [id |-> alertId, result |-> "sent"]),
              !.http = Append(@, "POST /api/alerts/{id}/acknowledge")]

\* An acknowledgeAlert that did not look at data.success would read like
\* this.
acknowledgeAlertResponseAnyOutcome(d, alertId, data) ==
    showNotification(removeAlertFromUI(d, alertId, "ack"),
                     <<"Alert acknowledged">>, "success")

\* An acknowledgeAlert that tried again after a refusal would read like
\* this.
acknowledgeAlertResponseRetrying(d, alertId, data) ==
    IF data.success
    THEN showNotification(removeAlertFromUI(d, alertId, "ack"),
                          <<"Alert acknowledged">>, "success")
    ELSE acknowledgeAlert(
             showNotification(
                 d,
                 IF FalsyString(data.error) THEN <<"Failed to acknowledge alert">>
                 ELSE data.error,
                 "danger"),
             alertId)

\* acknowledgeAlert(alertId) after the response arrived.
acknowledgeAlertResponse(d, alertId, data) ==
    IF data.success
    THEN showNotification(removeAlertFromUI(d, alertId, "ack"),
                          <<"Alert acknowledged">>, "success")
    ELSE showNotification(
             d,
             IF FalsyString(data.error) THEN <<"Failed to acknowledge alert">>
             ELSE data.error,
             "danger")

\* acknowledgeAlert(alertId) when fetch or response.json() throws.
acknowledgeAlertThrows(d) ==
    showNotification(d, <<"Failed to acknowledge alert">>, "danger")

----------------------------------------------------------------------------
(* Initial state: the page after initializeApp() has run.  The three loads *)
(* are in flight, the socket is connecting, the grid shows the loading     *)
(* state of loadCameras and nothing else is rendered yet.                  *)

\* The state of everything but the analytics dialog once the script has run
\* initializeApp().
PageLoaded ==
    /\ serverAlerts = [i \in AlertIds |-> "NONE"]
    /\ socket = [state |-> "connecting", attempts |-> 0]
    /\ pushes = <<>>
    /\ connectionStatus = "initial"
    /\ alerts = <<>>
    /\ alertsList = [items |-> <<>>, noAlerts |-> FALSE]
    /\ removalTimers = <<>>
    /\ alertCount = "0"
    /\ alertReqs = <<[answered |-> FALSE, alerts |-> <<>>]>>
    /\ ackReqs = <<>>
    /\ statReqs = 1
    /\ totalDetections = "0"
    /\ cameras = <<>>
    /\ cameraViews = <<>>
    /\ cameraGrid = "loading"
    /\ camReqs = 1
    /\ activeCameras = "0"
    /\ addCameraForm = formReset
    /\ addCameraBtn = [disabled |-> FALSE, label |-> "Add Camera"]
    /\ addCameraModal = "hidden"
    /\ addReqs = <<>>
    /\ reloadTimers = 0
    /\ acknowledgedShown = {}
    \* stale: how many of the oldest GET /api/alerts in flight were issued
    \* before a request whose response loadAlerts has already taken;
    \* pushed: the alert ids whose new_alert push handleNewAlert handled while
    \* no GET /api/alerts was in flight (every request that can list them
    \* later is the one handleNewAlert issued, or a later one), and that no
    \* response taken by loadAlerts has listed since.
    /\ history = [stale |-> 0, pushed |-> {}]
    /\ last = [op |-> "initializeApp", id |-> 0, arg |-> "", sound |-> 0,
               toasts |-> <<>>,
               http |-> <<"GET /api/cameras", "GET /api/alerts?pending=true",
                          "GET /api/analytics/summary?hours=24">>]

\* The analytics dialog before any data arrived.
Init ==
    /\ PageLoaded
    /\ analytics = analyticsReceived([total_detections |-> Undefined, by_class |-> <<>>],
                                     <<>>)

\* The analytics dialog with the answers of GET /api/analytics/summary and
\* GET /api/analytics/hourly received, one state for each pair of answers.
AnalyticsInit ==
    /\ PageLoaded
    /\ \E summaryData \in SummaryInputs, hourlyData \in HourlyInputs :
           analytics = analyticsReceived(summaryData, hourlyData)

----------------------------------------------------------------------------
(* Backend.                                                                *)

\* A detection becomes a new PENDING alert with the next id and is
\* published once to the live subscribers.
CreateAlert ==
    \E i \in AlertIds :
        /\ serverAlerts[i] = "NONE"
        /\ \A j \in AlertIds : j < i => serverAlerts[j] # "NONE"
        /\ serverAlerts' = [serverAlerts EXCEPT ![i] = "PENDING"]
        /\ pushes' \in Publish("new_alert", i)
        /\ Quiet
        /\ UNCHANGED <<socket, pageVars, acknowledgedShown, history>>

\* An administrator on another dashboard acknowledges alert i.
OtherDashboardAcknowledges ==
    \E i \in AlertIds :
        /\ acknowledge(i) = "success"
        /\ serverAlerts' = [serverAlerts EXCEPT ![i] = "ACKNOWLEDGED"]
        /\ pushes' \in Publish("alert_acknowledged", i)
        /\ Quiet
        /\ UNCHANGED <<socket, pageVars, acknowledgedShown, history>>

\* The backend answers a GET /api/alerts?pending=true with listPending().
ServerListsPending ==
    \E k \in 1..Len(alertReqs) :
        /\ ~alertReqs[k].answered
        /\ alertReqs' = [alertReqs EXCEPT ![k] = [answered |-> TRUE, alerts |-> listPending]]
        /\ Quiet
        /\ UNCHANGED <<serverAlerts, socket, pushes, connectionStatus, alerts,
                       alertsList, removalTimers, alertCount, ackReqs, statReqs,
                       totalDetections, cameras, cameraViews, cameraGrid, camReqs,
                       activeCameras, addCameraForm, addCameraBtn, addCameraModal,
                       addReqs, reloadTimers, analytics, acknowledgedShown, history>>

\* The backend handles a POST /api/alerts/{id}/acknowledge.
ServerAcknowledges ==
    \E k \in 1..Len(ackReqs) :
        LET i == ackReqs[k].id IN
        /\ ackReqs[k].result = "sent"
        /\ ackReqs' = InsertAck(RemoveAt(ackReqs, k),
                               [id |-> i, result |-> acknowledge(i)])
        /\ IF acknowledge(i) = "success"
           THEN /\ serverAlerts' = [serverAlerts EXCEPT ![i] = "ACKNOWLEDGED"]
                /\ pushes' \in Publish("alert_acknowledged", i)
           ELSE UNCHANGED <<serverAlerts, pushes>>
        /\ Quiet
        /\ UNCHANGED <<socket, connectionStatus, alerts, alertsList, removalTimers,
                       alertCount, alertReqs, statReqs, totalDetections, cameras,
                       cameraViews, cameraGrid, camReqs, activeCameras,
                       addCameraForm, addCameraBtn, addCameraModal, addReqs,
                       reloadTimers, analytics, acknowledgedShown, history>>

----------------------------------------------------------------------------
(* socket.io client created by connectSocket().                            *)

\* 'connect'.
SocketConnect ==
    /\ socket.state = "connecting"
    /\ socket' = [state |-> "connected", attempts |-> 0]
    /\ Commit("connect", 0, updateConnectionStatus(Page, TRUE))
    /\ UNCHANGED <<serverAlerts, pushes, acknowledgedShown, history>>

\* 'connect_error': socket.io retries up to reconnectionAttempts times and
\* then gives up.
SocketConnectError ==
    /\ socket.state = "connecting"
    /\ socket' = IF socket.attempts < reconnectionAttempts
                 THEN [socket EXCEPT !.attempts = @ + 1]
                 ELSE [socket EXCEPT !.state = "closed"]
    /\ Commit("connect_error", 0, updateConnectionStatus(Page, FALSE))
    /\ UNCHANGED <<serverAlerts, pushes, acknowledgedShown, history>>

\* 'disconnect': the events on the way are lost and socket.io starts
\* reconnecting.
SocketDisconnect ==
    /\ socket.state = "connected"
    /\ socket' = [state |-> "connecting", attempts |-> 0]
    /\ pushes' = <<>>
    /\ Commit("disconnect", 0, updateConnectionStatus(Page, FALSE))
    /\ UNCHANGED <<serverAlerts, acknowledgedShown, history>>

\* 'new_alert'.
NewAlertPush ==
    /\ pushes # <<>>
    /\ Head(pushes).event = "new_alert"
    /\ pushes' = Tail(pushes)
    /\ Commit("new_alert", Head(pushes).alert_id,
              handleNewAlert(Page, Head(pushes).alert_id))
    /\ history' = [history EXCEPT
                       !.pushed = IF alertReqs = <<>>
                                  THEN @ \cup {Head(pushes).alert_id} ELSE @]
    /\ UNCHANGED <<serverAlerts, socket, acknowledgedShown>>

\* 'alert_acknowledged'.
AlertAcknowledgedPush ==
    /\ pushes # <<>>
    /\ Head(pushes).event = "alert_acknowledged"
    /\ pushes' = Tail(pushes)
    /\ Commit("alert_acknowledged", Head(pushes).alert_id,
              removeAlertFromUI(Page, Head(pushes).alert_id, "push"))
    /\ UNCHANGED <<serverAlerts, socket, acknowledgedShown, history>>

\* 'camera_status_update' {camera_id, status}.
CameraStatusUpdatePush ==
    \E c \in CameraIds, status \in CameraStatuses :
        /\ socket.state = "connected"
        /\ Step("camera_status_update", c, status,
                updateCameraStatus(Page, c, status))
        /\ UNCHANGED <<serverAlerts, socket, pushes, acknowledgedShown, history>>

----------------------------------------------------------------------------
(* Timers of the page.                                                     *)

\* A page that polls only as a fallback while the socket is down would
\* read like this with the test inverted: polling tied to the socket.
PollTimerWhileConnected ==
    /\ socket.state = "connected"
    /\ Commit("loadAlerts", 0, loadAlerts(Page))
    /\ UNCHANGED <<serverAlerts, socket, pushes, acknowledgedShown, history>>

\* setInterval(loadAlerts, 2000).
PollTimer ==
    /\ Commit("loadAlerts", 0, loadAlerts(Page))
    /\ UNCHANGED <<serverAlerts, socket, pushes, acknowledgedShown, history>>

\* setInterval(loadStatistics, 5000).
StatisticsTimer ==
    /\ Commit("loadStatistics", 0, loadStatistics(Page))
    /\ UNCHANGED <<serverAlerts, socket, pushes, acknowledgedShown, history>>

\* The oldest 300 ms timer of removeAlertFromUI fires.
RemovalTimerFires ==
    /\ removalTimers # <<>>
    /\ Commit("removalTimeout", Head(removalTimers).id,
              removalTimeout([Page EXCEPT !.removalTimers = Tail(@)],
                             Head(removalTimers)))
    /\ UNCHANGED <<serverAlerts, socket, pushes, acknowledgedShown, history>>

\* The 5 s timer of the alert badge shown on a camera card fires.
AlertBadgeExpires ==
    \E c \in DOMAIN cameraViews :
        /\ cameraViews[c].alertBadge
        /\ Commit("alertBadgeTimeout", c,
                  [Page EXCEPT !.cameraViews[c].alertBadge = FALSE])
        /\ UNCHANGED <<serverAlerts, socket, pushes, acknowledgedShown, history>>

----------------------------------------------------------------------------
(* Fetch continuations.                                                    *)

\* A GET /api/alerts?pending=true completes with success: true.
LoadAlertsResponse ==
    \E k \in 1..Len(alertReqs) :
        /\ alertReqs[k].answered
        /\ \E p \in {[Page EXCEPT !.alertReqs = RemoveAt(@, k)]} :
               Commit("loadAlertsResponse", 0,
                      loadAlertsResponse(
                          p, [success |-> TRUE, alerts |-> alertReqs[k].alerts]))
        /\ history' = [stale |-> IF k > history.stale THEN k - 1
                                 ELSE history.stale - 1,
                        pushed |-> history.pushed \ Range(alertReqs[k].alerts)]
        /\ UNCHANGED <<serverAlerts, socket, pushes, acknowledgedShown>>

\* A GET /api/alerts?pending=true completes with success: false, or throws:
\* loadAlerts only logs to the console.
LoadAlertsFails ==
    \E k \in 1..Len(alertReqs) :
        /\ Commit("loadAlertsFails", 0, [Page EXCEPT !.alertReqs = RemoveAt(@, k)])
        /\ history' = [history EXCEPT !.stale = IF k > @ THEN @ ELSE @ - 1]
        /\ UNCHANGED <<serverAlerts, socket, pushes, acknowledgedShown>>

\* A GET /api/analytics/summary completes.
LoadStatisticsResponse ==
    \E data \in {[success |-> TRUE, total_detections |-> <<total_detections>>],
                 [success |-> TRUE, total_detections |-> Undefined],
                 [success |-> FALSE, total_detections |-> Undefined]} :
        /\ statReqs > 0
        /\ Commit("loadStatisticsResponse", 0,
                  loadStatisticsResponse([Page EXCEPT !.statReqs = @ - 1], data))
        /\ UNCHANGED <<serverAlerts, socket, pushes, acknowledgedShown, history>>

LoadStatisticsThrows ==
    /\ statReqs > 0
    /\ Commit("loadStatisticsThrows", 0,
              loadStatisticsThrows([Page EXCEPT !.statReqs = @ - 1]))
    /\ UNCHANGED <<serverAlerts, socket, pushes, acknowledgedShown, history>>

\* A GET /api/cameras completes.
LoadCamerasResponse ==
    \E data \in [success : {TRUE}, cameras : CameraLists]
                  \cup {[success |-> FALSE, cameras |-> <<>>]} :
        /\ camReqs > 0
        /\ Commit("loadCamerasResponse", 0,
                  loadCamerasResponse([Page EXCEPT !.camReqs = @ - 1], data))
        /\ UNCHANGED <<serverAlerts, socket, pushes, acknowledgedShown, history>>

LoadCamerasThrows ==
    /\ camReqs > 0
    /\ Commit("loadCamerasThrows", 0,
              loadCamerasThrows([Page EXCEPT !.camReqs = @ - 1]))
    /\ UNCHANGED <<serverAlerts, socket, pushes, acknowledgedShown, history>>

\* The answers the backend gives to an acknowledge it did not commit.
AcknowledgeErrors == {<<"Alert already acknowledged">>, <<"">>, Undefined}

\* A POST /api/alerts/{id}/acknowledge completes.
AcknowledgeAlertResponse ==
    \E k \in 1..Len(ackReqs) :
        \E data \in IF ackReqs[k].result = "success"
                    THEN {[success |-> TRUE, error |-> Undefined]}
                    ELSE [success : {FALSE}, error : AcknowledgeErrors] :
            /\ ackReqs[k].result # "sent"
            /\ Commit("acknowledgeAlertResponse", ackReqs[k].id,
                      acknowledgeAlertResponse([Page EXCEPT !.ackReqs = RemoveAt(@, k)],
                                               ackReqs[k].id, data))
            /\ acknowledgedShown' =
                   IF Toast(<<"Alert acknowledged">>, "success") \in Range(last'.toasts)
                   THEN acknowledgedShown \cup {ackReqs[k].id}
                   ELSE acknowledgedShown
            /\ UNCHANGED <<serverAlerts, socket, pushes, history>>

\* A POST /api/alerts/{id}/acknowledge throws, before or after the backend
\* handled it.
AcknowledgeAlertThrows ==
    \E k \in 1..Len(ackReqs) :
        /\ Commit("acknowledgeAlertThrows", ackReqs[k].id,
                  acknowledgeAlertThrows([Page EXCEPT !.ackReqs = RemoveAt(@, k)]))
        /\ UNCHANGED <<serverAlerts, socket, pushes, acknowledgedShown, history>>

----------------------------------------------------------------------------
(* The administrator.                                                      *)

\* Click on the acknowledge button of a rendered alert item.
ClickAcknowledge ==
    \E i \in Range(alertsList.items) :
        /\ Commit("acknowledgeAlert", i, acknowledgeAlert(Page, i))
        /\ UNCHANGED <<serverAlerts, socket, pushes, acknowledgedShown, history>>

\* Click on Retry in the connection-error state of the grid: loadCameras().
ClickRetryLoadCameras ==
    /\ cameraGrid = "error"
    /\ Commit("loadCameras", 0, loadCameras(Page))
    /\ UNCHANGED <<serverAlerts, socket, pushes, acknowledgedShown, history>>

\* The administrator opens the add-camera dialog (a data-bs-toggle button).
OpenAddCameraModal ==
    /\ addCameraModal = "hidden"
    /\ Commit("openModal", 0, [Page EXCEPT !.addCameraModal = "shown"])
    /\ UNCHANGED <<serverAlerts, socket, pushes, acknowledgedShown, history>>

\* The administrator types a camera name.
TypeCameraName ==
    \E v \in TypedNames :
        /\ addCameraModal = "shown"
        /\ Commit("type", 0, [Page EXCEPT !.addCameraForm.cameraName = v])
        /\ UNCHANGED <<serverAlerts, socket, pushes, acknowledgedShown, history>>

\* The administrator types a location.
TypeCameraLocation ==
    \E v \in TypedLocations :
        /\ addCameraModal = "shown"
        /\ Commit("type", 0, [Page EXCEPT !.addCameraForm.cameraLocation = v])
        /\ UNCHANGED <<serverAlerts, socket, pushes, acknowledgedShown, history>>

\* The administrator picks a source type: toggleSourceInput().
SelectSourceType ==
    \E t \in SourceTypes :
        /\ addCameraModal = "shown"
        /\ Commit("toggleSourceInput", 0,
                  toggleSourceInput([Page EXCEPT !.addCameraForm.cameraSourceType = t]))
        /\ UNCHANGED <<serverAlerts, socket, pushes, acknowledgedShown, history>>

\* The administrator types a camera source (the field is shown for the
\* source types other than webcam).
TypeCameraSource ==
    \E v \in TypedSources :
        /\ addCameraModal = "shown"
        /\ addCameraForm.cameraSourceType # "webcam"
        /\ Commit("type", 0, [Page EXCEPT !.addCameraForm.cameraRtsp = v])
        /\ UNCHANGED <<serverAlerts, socket, pushes, acknowledgedShown, history>>

\* Click on the Add Camera button of the dialog: addCamera().
ClickAddCamera ==
    /\ addCameraModal = "shown"
    /\ ~addCameraBtn.disabled
    /\ Commit("addCamera", 0, addCamera(Page))
    /\ UNCHANGED <<serverAlerts, socket, pushes, acknowledgedShown, history>>

\* The answers of the backend to a POST /api/cameras it refuses.
AddCameraErrors == {<<"Camera name already exists">>, Undefined}

\* A POST /api/cameras completes.
AddCameraResponse ==
    \E data \in {[success |-> TRUE, error |-> Undefined]}
                  \cup [success : {FALSE}, error : AddCameraErrors] :
        /\ addReqs # <<>>
        /\ Commit("addCameraResponse", 0,
                  addCameraResponse([Page EXCEPT !.addReqs = Tail(@)], data))
        /\ UNCHANGED <<serverAlerts, socket, pushes, acknowledgedShown, history>>

AddCameraThrows ==
    /\ addReqs # <<>>
    /\ Commit("addCameraThrows", 0, addCameraThrows([Page EXCEPT !.addReqs = Tail(@)]))
    /\ UNCHANGED <<serverAlerts, socket, pushes, acknowledgedShown, history>>

\* The 1 s timer set by addCamera() fires: loadCameras().
ReloadTimerFires ==
    /\ reloadTimers > 0
    /\ Commit("loadCameras", 0, loadCameras([Page EXCEPT !.reloadTimers = @ - 1]))
    /\ UNCHANGED <<serverAlerts, socket, pushes, acknowledgedShown, history>>

\* The stream of camera c delivers its image: the 'load' event of the <img>.
ImageLoads ==
    \E c \in DOMAIN cameraViews :
        /\ cameraViews[c].imgLoad = "pending"
        /\ Commit("imgLoad", c, [Page EXCEPT !.cameraViews[c] = imgOnLoad(@)])
        /\ UNCHANGED <<serverAlerts, socket, pushes, acknowledgedShown, history>>

\* The load of the stream of camera c fails: the 'error' event of the <img>.
ImageFails ==
    \E c \in DOMAIN cameraViews :
        /\ cameraViews[c].imgLoad = "pending"
        /\ Commit("imgError", c, imgOnError(Page, c))
        /\ UNCHANGED <<serverAlerts, socket, pushes, acknowledgedShown, history>>

\* A timer set by handleStreamError fires after retryDelay: refreshStream().
RetryTimerFires ==
    \E c \in DOMAIN cameraViews :
        /\ cameraViews[c].retryTimers > 0
        /\ Commit("retryTimeout", c,
                  [Page EXCEPT !.cameraViews[c] =
                                   refreshStream([@ EXCEPT !.retryTimers = @ - 1])])
        /\ UNCHANGED <<serverAlerts, socket, pushes, acknowledgedShown, history>>

\* Click on Retry in the Camera Offline box, or on the Refresh control of
\* the feed: cameraViewManager.refreshCamera(id).
ClickRefreshCamera ==
    \E c \in DOMAIN cameraViews :
        /\ cameraViews[c].inDocument
        /\ Commit("refreshCamera", c, refreshCamera(Page, c))
        /\ UNCHANGED <<serverAlerts, socket, pushes, acknowledgedShown, history>>

\* The per-minute timer of initializeApp() fires.
RefreshInterval ==
    /\ Commit("refreshInterval", 0, refreshInterval(Page))
    /\ UNCHANGED <<serverAlerts, socket, pushes, acknowledgedShown, history>>

\* loadAnalytics() with both answers received renders the dialog.
RenderAnalyticsCharts ==
    /\ Commit("updateSummaryStats", 0, renderAnalyticsCharts(Page))
    /\ UNCHANGED <<serverAlerts, socket, pushes, acknowledgedShown, history>>

Next ==
    \/ CreateAlert
    \/ OtherDashboardAcknowledges
    \/ ServerListsPending
    \/ ServerAcknowledges
    \/ SocketConnect
    \/ SocketConnectError
    \/ SocketDisconnect
    \/ NewAlertPush
    \/ AlertAcknowledgedPush
    \/ CameraStatusUpdatePush
    \/ PollTimer
    \/ StatisticsTimer
    \/ RemovalTimerFires
    \/ AlertBadgeExpires
    \/ LoadAlertsResponse
    \/ LoadAlertsFails
    \/ LoadStatisticsResponse
    \/ LoadStatisticsThrows
    \/ LoadCamerasResponse
    \/ LoadCamerasThrows
    \/ AcknowledgeAlertResponse
    \/ AcknowledgeAlertThrows
    \/ ClickAcknowledge
    \/ ClickRetryLoadCameras
    \/ OpenAddCameraModal
    \/ TypeCameraName
    \/ TypeCameraLocation
    \/ SelectSourceType
    \/ TypeCameraSource
    \/ ClickAddCamera
    \/ AddCameraResponse
    \/ AddCameraThrows
    \/ ReloadTimerFires
    \/ ImageLoads
    \/ ImageFails
    \/ RetryTimerFires
    \/ ClickRefreshCamera
    \/ RefreshInterval
    \/ RenderAnalyticsCharts

Spec == Init /\ [][Next]_vars

----------------------------------------------------------------------------
(* The page is a set of loosely coupled parts (alert panel, camera grid,   *)
(* add-camera dialog, statistics) that share only the event loop.  Each    *)
(* specification below runs the handlers of some of these parts from the   *)
(* same initial state; the handlers left out never fire in it.             *)

\* The alert panel driven by polls and pushes, without acknowledgements
\* made on this page.
PushNext ==
    \/ CreateAlert
    \/ OtherDashboardAcknowledges
    \/ ServerListsPending
    \/ SocketConnect
    \/ SocketDisconnect
    \/ NewAlertPush
    \/ AlertAcknowledgedPush
    \/ PollTimer
    \/ RemovalTimerFires
    \/ LoadAlertsResponse
    \/ LoadAlertsFails
    \/ LoadStatisticsResponse
    \/ LoadStatisticsThrows

PushSpec == Init /\ [][PushNext]_vars

\* The alert panel driven by polls, with acknowledgements made on this page
\* and on others; the socket never connects.
AckNext ==
    \/ CreateAlert
    \/ OtherDashboardAcknowledges
    \/ ServerListsPending
    \/ ServerAcknowledges
    \/ PollTimer
    \/ RemovalTimerFires
    \/ LoadAlertsResponse
    \/ LoadAlertsFails
    \/ AcknowledgeAlertResponse
    \/ AcknowledgeAlertThrows
    \/ ClickAcknowledge

AckSpec == Init /\ [][AckNext]_vars

\* New alerts against the camera grid; no alert is acknowledged.
GridNext ==
    \/ CreateAlert
    \/ ServerListsPending
    \/ SocketConnect
    \/ SocketDisconnect
    \/ NewAlertPush
    \/ PollTimer
    \/ StatisticsTimer
    \/ AlertBadgeExpires
    \/ LoadAlertsResponse
    \/ LoadAlertsFails
    \/ LoadStatisticsResponse
    \/ LoadStatisticsThrows
    \/ LoadCamerasResponse
    \/ LoadCamerasThrows
    \/ ClickRetryLoadCameras

GridSpec == Init /\ [][GridNext]_vars

\* The camera grid and the status pushes; a camera added with the form's
\* defaults makes the page load the cameras again.
StatusNext ==
    \/ SocketConnect
    \/ SocketConnectError
    \/ SocketDisconnect
    \/ CameraStatusUpdatePush
    \/ LoadCamerasResponse
    \/ LoadCamerasThrows
    \/ ClickRetryLoadCameras
    \/ OpenAddCameraModal
    \/ TypeCameraName
    \/ ClickAddCamera
    \/ AddCameraResponse
    \/ ReloadTimerFires

StatusSpec == Init /\ [][StatusNext]_vars

\* The streams of the camera cards.
StreamNext ==
    \/ LoadCamerasResponse
    \/ LoadCamerasThrows
    \/ ClickRetryLoadCameras
    \/ ImageLoads
    \/ ImageFails
    \/ RetryTimerFires
    \/ ClickRefreshCamera
    \/ RefreshInterval

StreamSpec == Init /\ [][StreamNext]_vars

\* The analytics dialog, for each pair of answers loadAnalytics can get.
AnalyticsNext ==
    \/ RenderAnalyticsCharts

AnalyticsSpec == AnalyticsInit /\ [][AnalyticsNext]_vars

\* The add-camera dialog and the camera grid.
FormNext ==
    \/ LoadCamerasResponse
    \/ LoadCamerasThrows
    \/ ClickRetryLoadCameras
    \/ OpenAddCameraModal
    \/ TypeCameraName
    \/ TypeCameraLocation
    \/ SelectSourceType
    \/ TypeCameraSource
    \/ ClickAddCamera
    \/ AddCameraResponse
    \/ AddCameraThrows
    \/ ReloadTimerFires

FormSpec == Init /\ [][FormNext]_vars

\* The pull path with the push channel in every state it can take.  The
\* poll timer keeps firing (setInterval), and of the polls that again and
\* again can reach the backend and can complete with success, some do.
PullNext ==
    \/ CreateAlert
    \/ OtherDashboardAcknowledges
    \/ ServerListsPending
    \/ SocketConnect
    \/ SocketConnectError
    \/ SocketDisconnect
    \/ AlertAcknowledgedPush
    \/ PollTimer
    \/ RemovalTimerFires
    \/ LoadAlertsResponse
    \/ LoadAlertsFails

PullSpec ==
    /\ Init
    /\ [][PullNext]_vars
    /\ WF_vars(PollTimer)
    /\ SF_vars(ServerListsPending)
    /\ SF_vars(LoadAlertsResponse)

----------------------------------------------------------------------------
(* Claims.                                                                 *)

\* C1: the pull path does not depend on the push channel.  In PullSpec no
\* new_alert push is ever handled and the socket may fail to connect, give
\* up after its reconnection attempts, or drop; still every alert that
\* stays PENDING on the backend eventually is in the dashboard's alerts.
C1_PendingAlertEventuallyListed ==
    \A i \in AlertIds :
        <>[](serverAlerts[i] = "PENDING") => <>(i \in Range(alerts))

\* C1 witness: socket.io has given up, and a poll response has put an alert
\* that is pending on the backend into the alerts list.
C1_Witness ==
    \E i \in AlertIds :
        /\ serverAlerts[i] = "PENDING"
        /\ socket.state = "closed"
        /\ socket.attempts = reconnectionAttempts
        /\ last.op = "loadAlertsResponse"
        /\ i \in Range(alerts)

\* C2: pull is the source of truth.  The handler of a new_alert push leaves
\* `alerts` as it is and asks for a pull; and whenever a step puts an id
\* into `alerts` that was not there, the step is the continuation of a
\* GET /api/alerts?pending=true that the backend has answered, and `alerts`
\* is the alerts array of that response.
C2_AlertsAssignedOnlyFromPoll ==
    [][/\ last'.op = "new_alert" =>
              /\ alerts' = alerts
              /\ alertsList' = alertsList
              /\ "GET /api/alerts?pending=true" \in Range(last'.http)
              /\ Len(alertReqs') = Len(alertReqs) + 1
       /\ Range(alerts') \ Range(alerts) # {} =>
              /\ last'.op = "loadAlertsResponse"
              /\ \E k \in 1..Len(alertReqs) :
                     /\ alertReqs[k].answered
                     /\ alerts' = alertReqs[k].alerts
                     /\ alertReqs' = RemoveAt(alertReqs, k)
      ]_vars

\* C2 witness: a new_alert push has been handled; its alert is not in
\* `alerts`, and the pull it asked for is in flight.
C2_Witness ==
    /\ last.op = "new_alert"
    /\ serverAlerts[last.id] = "PENDING"
    /\ last.id \notin Range(alerts)
    /\ alertReqs # <<>>

\* C3: the 300 ms timer started by an alert_acknowledged push leaves the
\* alert absent from `alerts` and from the rendered panel, with the count
\* showing the length of `alerts`; neither the push handler nor the timer
\* issues an HTTP request.
C3_AcknowledgedPushRemovesAlert ==
    [][/\ last'.op = "alert_acknowledged" => last'.http = <<>>
       /\ (/\ last'.op = "removalTimeout"
           /\ removalTimers # <<>>
           /\ Head(removalTimers).by = "push") =>
              /\ last'.id \notin Range(alerts')
              /\ last'.id \notin Range(alertsList'.items)
              /\ alertCount' = ToString(Len(alerts'))
              /\ last'.http = <<>>
      ]_vars

\* C4: a success outcome is given to an acknowledge request only by the
\* step that takes the alert from PENDING to ACKNOWLEDGED, to one request;
\* ACKNOWLEDGED is terminal, so no alert has a second success.  On this
\* page 'Alert acknowledged' is shown for an alert id only on that success
\* outcome and only if it was not shown for the id before.
C4_ExactlyOneAcknowledgeSucceeds ==
    [][\A i \in AlertIds :
         LET Successes(reqs) ==
                 Cardinality({k \in 1..Len(reqs) :
                                  reqs[k].id = i /\ reqs[k].result = "success"})
         IN  /\ serverAlerts[i] = "ACKNOWLEDGED" => serverAlerts'[i] = "ACKNOWLEDGED"
             /\ Successes(ackReqs') > Successes(ackReqs) =>
                    /\ serverAlerts[i] = "PENDING"
                    /\ serverAlerts'[i] = "ACKNOWLEDGED"
                    /\ Successes(ackReqs') = 1
             /\ (/\ last'.op = "acknowledgeAlertResponse"
                 /\ last'.id = i
                 /\ Toast(<<"Alert acknowledged">>, "success") \in Range(last'.toasts)) =>
                    /\ i \notin acknowledgedShown
                    /\ Successes(ackReqs) = 1
                    /\ Successes(ackReqs') = 0
      ]_vars

\* C4 witness: two acknowledge requests for one alert were in flight; one
\* got the success and showed 'Alert acknowledged', the other has just been
\* refused.
C4_Witness ==
    /\ last.op = "acknowledgeAlertResponse"
    /\ last.id \in acknowledgedShown
    /\ last.toasts = <<Toast(<<"Alert already acknowledged">>, "danger")>>

\* C5: when the acknowledge request is answered without success or throws,
\* the continuation leaves `alerts`, the panel, its removal timers and the
\* count as they are, shows one danger notification (the error text of the
\* backend, else 'Failed to acknowledge alert'; the fixed text when the
\* request throws) and issues no request; the click issues exactly one
\* POST /api/alerts/{id}/acknowledge.
C5_FailedAcknowledgeChangesNothing ==
    [][LET consumed ==
               {k \in 1..Len(ackReqs) : ackReqs' = RemoveAt(ackReqs, k)}
           refused ==
               /\ last'.op = "acknowledgeAlertResponse"
               /\ \A k \in consumed : ackReqs[k].result # "success"
           texts ==
               {IF FalsyString(e) THEN <<"Failed to acknowledge alert">> ELSE e :
                    e \in AcknowledgeErrors}
       IN  /\ (refused \/ last'.op = "acknowledgeAlertThrows") =>
                  /\ alerts' = alerts
                  /\ alertsList' = alertsList
                  /\ removalTimers' = removalTimers
                  /\ alertCount' = alertCount
                  /\ last'.http = <<>>
                  /\ Len(ackReqs') = Len(ackReqs) - 1
                  /\ Len(last'.toasts) = 1
                  /\ last'.toasts[1].type = "danger"
                  /\ IF refused THEN last'.toasts[1].message \in texts
                     ELSE last'.toasts[1].message = <<"Failed to acknowledge alert">>
           /\ last'.op = "acknowledgeAlert" =>
                  /\ last'.http = <<"POST /api/alerts/{id}/acknowledge">>
                  /\ Len(ackReqs') = Len(ackReqs) + 1
      ]_vars

\* C5 witness: an acknowledge has just been refused with the error text of
\* the backend, and the alert is still listed and rendered.
C5_Witness ==
    /\ last.op = "acknowledgeAlertResponse"
    /\ last.toasts = <<Toast(<<"Alert already acknowledged">>, "danger")>>
    /\ last.id \in Range(alerts)
    /\ last.id \in Range(alertsList.items)
    /\ alertCount = ToString(Len(alerts))

\* C6: addCamera() with a name that is empty or only blanks, or with a
\* source type other than webcam and a source that is empty or only blanks,
\* sends no POST /api/cameras, leaves cameras, camera views, grid, form,
\* button and dialog as they are, and shows one warning that names the
\* missing field.
C6_InvalidAddCameraRejected ==
    [][LET Blank(s) == \A j \in 1..Len(s) : s[j] = " "
           noName == Blank(addCameraForm.cameraName)
           noSource == /\ addCameraForm.cameraSourceType # "webcam"
                       /\ Blank(addCameraForm.cameraRtsp)
       IN  (last'.op = "addCamera" /\ (noName \/ noSource)) =>
               /\ last'.http = <<>>
               /\ addReqs' = addReqs
               /\ cameras' = cameras
               /\ cameraViews' = cameraViews
               /\ cameraGrid' = cameraGrid
               /\ camReqs' = camReqs
               /\ addCameraForm' = addCameraForm
               /\ addCameraBtn' = addCameraBtn
               /\ addCameraModal' = addCameraModal
               /\ last'.toasts =
                      <<Toast(IF noName THEN <<"Please enter camera name">>
                              ELSE <<"Please enter camera source">>,
                              "warning")>>
      ]_vars

\* C6 witness: addCamera() has just refused a form whose name is typed but
\* holds only a blank.
C6_Witness ==
    /\ last.op = "addCamera"
    /\ addCameraForm.cameraName = <<" ">>
    /\ last.toasts = <<Toast(<<"Please enter camera name">>, "warning")>>
    /\ addReqs = <<>>

\* C7: the continuation of a successful poll shows every alert of the
\* response, in the order of the response; when the response differs from
\* the previous `alerts` the panel is exactly the response; and when the
\* response is longer than the previous `alerts`, the one toast names the
\* first alert of the response.
C7_PanelInResponseOrder ==
    [][last'.op = "loadAlertsResponse" =>
           \E k \in 1..Len(alertReqs) :
               LET response == alertReqs[k].alerts
               IN  /\ alertReqs[k].answered
                   /\ alertReqs' = RemoveAt(alertReqs, k)
                   /\ alerts' = response
                   /\ SelectIds(alertsList'.items, Range(response)) = response
                   /\ response # alerts => alertsList'.items = response
                   /\ Len(response) > Len(alerts) =>
                          last'.toasts =
                              <<Toast(DetectedMessage(AlertRecord(response[1])),
                                      "danger")>>
      ]_vars

\* C7 witness: a poll has just found two alerts where there was at most
\* one; the panel lists them newest first and the toast names the newest.
C7_Witness ==
    /\ last.op = "loadAlertsResponse"
    /\ alerts = <<2, 1>>
    /\ alertsList.items = <<2, 1>>
    /\ last.toasts = <<Toast(DetectedMessage(AlertRecord(2)), "danger")>>

\* C8 as stated: after a camera_status_update push for a camera that has a
\* view, the badge of the view reads ONLINE iff the status is 'active' or
\* 'online'; a push for a camera without a view changes nothing.
C8_BadgeFollowsPushedStatus ==
    [][last'.op = "camera_status_update" =>
           IF last'.id \in DOMAIN cameraViews
           THEN /\ last'.id \in DOMAIN cameraViews'
                /\ cameraViews'[last'.id].status_badge =
                       IF last'.arg \in {"active", "online"} THEN "ONLINE"
                       ELSE "OFFLINE"
           ELSE pageVars' = pageVars
      ]_vars

\* C8 amended: the badge follows the pushed status iff the camera has a
\* view whose card is in the document; for a view whose card was taken out
\* of the grid (loading, error or no-cameras state), as for a camera
\* without a view, the push changes nothing.  No other part of the page
\* changes in either case.
C8_BadgeOfShownCardFollowsPushedStatus ==
    [][last'.op = "camera_status_update" =>
           /\ IF /\ last'.id \in DOMAIN cameraViews
                 /\ cameraViews[last'.id].inDocument
              THEN cameraViews' =
                       [cameraViews EXCEPT ![last'.id].status_badge =
                            IF last'.arg \in {"active", "online"} THEN "ONLINE"
                            ELSE "OFFLINE"]
              ELSE cameraViews' = cameraViews
           /\ cameras' = cameras
           /\ cameraGrid' = cameraGrid
           /\ activeCameras' = activeCameras
           /\ camReqs' = camReqs
           /\ last'.http = <<>>
           /\ last'.toasts = <<>>
      ]_vars

\* C8 witness: a push 'offline' has just turned the badge of a card in the
\* grid, which started ONLINE, to OFFLINE.
C8_Witness ==
    /\ last.op = "camera_status_update"
    /\ last.arg = "offline"
    /\ last.id = 1
    /\ 1 \in DOMAIN cameraViews
    /\ cameraViews[1].inDocument
    /\ cameraViews[1].status_badge = "OFFLINE"
    /\ cameras[1].status = "active"

\* C9: handleNewAlert, loadAlerts and loadStatistics, with their
\* continuations, leave the cameras array, the set of camera views, the
\* cards in the grid and their status badges as they are, and issue no
\* GET /api/cameras.
C9_NewAlertLeavesCameraGrid ==
    [][last'.op \in {"new_alert", "loadAlerts", "loadAlertsResponse",
                     "loadAlertsFails", "loadStatistics",
                     "loadStatisticsResponse", "loadStatisticsThrows"} =>
           /\ cameras' = cameras
           /\ DOMAIN cameraViews' = DOMAIN cameraViews
           /\ \A c \in DOMAIN cameraViews :
                  /\ cameraViews'[c].inDocument = cameraViews[c].inDocument
                  /\ cameraViews'[c].status_badge = cameraViews[c].status_badge
           /\ cameraGrid' = cameraGrid
           /\ camReqs' = camReqs
           /\ "GET /api/cameras" \notin Range(last'.http)
      ]_vars

\* C9 witness: a new_alert push has just been handled with the camera
\* cards in the grid; the card of the alert's camera shows the alert badge
\* and no camera request is in flight.
C9_Witness ==
    /\ last.op = "new_alert"
    /\ cameraGrid = "cards"
    /\ camReqs = 0
    /\ AlertRecord(last.id).camera_id \in DOMAIN cameraViews
    /\ cameraViews[AlertRecord(last.id).camera_id].inDocument
    /\ cameraViews[AlertRecord(last.id).camera_id].alertBadge

\* C10: whenever the response of a successful poll holds an alert that was
\* not in the previous `alerts`, the continuation plays the alert sound and
\* shows a danger toast (which alert the toast names is left open here).
C10_NewAlertInPollSounds ==
    [][(/\ last'.op = "loadAlertsResponse"
        /\ Range(alerts') \ Range(alerts) # {}) =>
           /\ last'.sound >= 1
           /\ \E t \in Range(last'.toasts) : t.type = "danger"
      ]_vars

\* C11: the response of a GET /api/alerts?pending=true that was issued
\* before a request whose response loadAlerts has already taken does not
\* change `alerts` or the panel: the list keeps the response of the request
\* issued last.
C11_OlderResponseNeverOverwrites ==
    [][(/\ last'.op = "loadAlertsResponse"
        /\ history'.stale < history.stale) =>
           /\ alerts' = alerts
           /\ alertsList' = alertsList
      ]_vars

\* C12: an alert that the removal timer of an acknowledgement has just
\* taken out of `alerts` is not put back by the next step, whatever that
\* step is; in particular not by the arrival of a poll response that was
\* requested before the acknowledgement.
C12_AcknowledgedAlertNotPutBack ==
    [][(/\ last.op = "removalTimeout"
        /\ last.id \notin Range(alerts)) =>
           last.id \notin Range(alerts')
      ]_vars

\* C13: whenever no 300 ms removal timer is pending, the ids of the alert
\* items in the panel are the ids in `alerts`.
C13_PanelEqualsListWithoutTimers ==
    removalTimers = <<>> => Range(alertsList.items) = Range(alerts)

\* C14: handleNewAlert plays the sound once and shows one toast for its
\* new_alert push, and the alert is not announced again: the response to the
\* loadAlerts that handleNewAlert issued (or to a later one), whose new
\* alerts were all announced by their pushes, plays no sound and shows no
\* toast.
C14_PushedAlertSoundsOnce ==
    [][/\ last'.op = "new_alert" =>
              /\ last'.sound = 1
              /\ last'.toasts =
                     <<Toast(PushedMessage(AlertRecord(last'.id)), "danger")>>
       /\ (/\ last'.op = "loadAlertsResponse"
           /\ Range(alerts') \ Range(alerts) # {}
           /\ Range(alerts') \ Range(alerts) \subseteq history.pushed) =>
              /\ last'.sound = 0
              /\ last'.toasts = <<>>
      ]_vars

\* C15: a failed image load sets one retry timer, whose firing reloads the
\* stream, and Camera Offline replaces the image only at a failed load that
\* follows maxRetries retries with no successful load in between, the
\* (maxRetries + 1)-th failed load in a row.
C15_OfflineOnFourthFailedLoad ==
    [][/\ last'.op = "imgError" =>
              /\ cameraViews'[last'.id].feed = "img" =>
                     cameraViews'[last'.id].retryTimers =
                         cameraViews[last'.id].retryTimers + 1
              /\ (/\ cameraViews[last'.id].feed = "img"
                  /\ cameraViews'[last'.id].feed = "offline") =>
                     cameraViews'[last'.id].failedLoads = maxRetries + 1
       /\ last'.op = "retryTimeout" =>
              cameraViews'[last'.id].imgLoad = "pending"
      ]_vars

\* C16: when Retry is pressed on a card in the Camera Offline state and the
\* image load it starts succeeds, the feed shows the stream image again and
\* the badge says ONLINE.
C16_RetryBringsCardBackOnline ==
    [][(/\ last.op = "refreshCamera"
        /\ last'.op = "imgLoad"
        /\ last'.id = last.id
        /\ cameraViews[last.id].feed = "offline") =>
           /\ cameraViews'[last.id].feed = "img"
           /\ cameraViews'[last.id].status_badge = "ONLINE"
      ]_vars

\* C17: after a loadCameras that got a success response, the camera ids the
\* CameraViewManager holds are the ids of the cameras of the response; with
\* an empty response the manager holds none (getCameraCount() is 0).
C17_ManagerHoldsReturnedCameras ==
    [][(/\ last'.op = "loadCamerasResponse"
        /\ last'.toasts = <<>>) =>
           /\ DOMAIN cameraViews' = {cameras'[i].id : i \in 1..Len(cameras')}
           /\ getCameraCount([cameraViews |-> cameraViews']) = Len(cameras')
      ]_vars

\* C18: when a loadCameras completes, by a success response, a success:false
\* response or a thrown request, the camera grid does not show 'Loading
\* cameras...': it shows the cards, the no-cameras message or the
\* connection-error state.
C18_GridLeavesLoadingState ==
    [][last'.op \in {"loadCamerasResponse", "loadCamerasThrows"} =>
           cameraGrid' \in {"cards", "noCameras", "error"}
      ]_vars

\* C19: the total-detections counter shows the total_detections of the most
\* recent successful summary response ('0' for an undefined or zero value):
\* only a loadStatistics that got a successful response changes the counter,
\* and it writes the total of its response.
C19_CounterShowsLastSuccessfulSummary ==
    [][totalDetections' # totalDetections =>
           /\ last'.op = "loadStatisticsResponse"
           /\ totalDetections' \in {ToString(total_detections), "0"}
      ]_vars

====
